---- MODULE Spec2Model ----
(***************************************************************************)
(* A model of recite (main.go): the Bubble Tea model of the line           *)
(* recitation trainer, its key handlers and the pure helpers they call.    *)
(*                                                                         *)
(* Strings are sequences of bytes, so len(s) is Len(s).  Every character   *)
(* of the model's alphabet is one byte wide and is written as itself, but  *)
(* for the right single quotation mark U+2019, which is the three bytes    *)
(* "E2" "80" "99".  Go indices are 0-based and are kept 0-based: At(s, i)  *)
(* reads s[i].                                                             *)
(***************************************************************************)
EXTENDS Integers, Sequences, FiniteSets, TLC

VARIABLES meta, allLines, lines, lineIndices, sections, selectedSection,
          currentLine, input, results, state, hint, hintLevel, mode, twin, run, msg

\* the fields of the model struct of main.go; mode is the field the variant with a
\* mode selection has in place of meta, hint and hintLevel
\* twin is a second session over the same practice set, for the comparison of two
\* sessions: its currentLine, input, results, state, hint, hintLevel and whether it runs
fields == <<meta, allLines, lines, lineIndices, sections, selectedSection,
            currentLine, input, results, state, hint, hintLevel>>

vars == <<meta, allLines, lines, lineIndices, sections, selectedSection,
          currentLine, input, results, state, hint, hintLevel, mode, twin, run, msg>>

-----------------------------------------------------------------------------
(* Bounds *)

\* longest lyrics file, in lines
MaxLines == 3
\* longest typed input, in characters
MaxInput == 3
\* longest typed input of the g-dropping sessions, in characters
MaxInputG == 6
\* most headers of a file of many sections
MaxSections == 10

-----------------------------------------------------------------------------
(* Characters and the string functions of the Go library *)

Tab == "\t"

Letters == {"a", "g", "i", "l", "n", "o", "r", "s", "t", "v", "w", "y",
            "A", "G", "I", "L", "N", "Y"}
Digits == {"0", "1", "2", "3", "4", "5", "6", "7", "8", "9"}

IsLetter(c) == c \in Letters
IsDigit(c) == c \in Digits
IsSpace(c) == c \in {" ", Tab}

ToLower(c) ==
    CASE c = "A" -> "a"
      [] c = "G" -> "g"
      [] c = "Y" -> "y"
      [] c = "N" -> "n"
      [] c = "I" -> "i"
      [] c = "L" -> "l"
      [] OTHER -> c

At(s, i) == s[i + 1]

\* s[i:j]
Slice(s, i, j) == SubSeq(s, i + 1, j)

RECURSIVE TrimLeft(_)
TrimLeft(s) ==
    IF s # <<>> /\ IsSpace(Head(s)) THEN TrimLeft(Tail(s)) ELSE s

RECURSIVE TrimRight(_)
TrimRight(s) ==
    IF s # <<>> /\ IsSpace(s[Len(s)]) THEN TrimRight(SubSeq(s, 1, Len(s) - 1)) ELSE s

TrimSpace(s) == TrimRight(TrimLeft(s))

HasPrefix(s, p) == Len(s) >= Len(p) /\ SubSeq(s, 1, Len(p)) = p

HasSuffix(s, p) == Len(s) >= Len(p) /\ SubSeq(s, Len(s) - Len(p) + 1, Len(s)) = p

TrimPrefix(s, p) == IF HasPrefix(s, p) THEN SubSeq(s, Len(p) + 1, Len(s)) ELSE s

\* strings.Fields: the maximal runs of non-space characters, in order
RECURSIVE FieldsFrom(_, _, _)
FieldsFrom(s, word, acc) ==
    IF s = <<>>
    THEN IF word = <<>> THEN acc ELSE Append(acc, word)
    ELSE IF IsSpace(Head(s))
         THEN FieldsFrom(Tail(s), <<>>, IF word = <<>> THEN acc ELSE Append(acc, word))
         ELSE FieldsFrom(Tail(s), Append(word, Head(s)), acc)

Fields(s) == FieldsFrom(s, <<>>, <<>>)

-----------------------------------------------------------------------------
(* Pure helpers of main.go *)

stateIntro == 0
\* the first state of the variant with a mode selection
stateModeSelect == 0
stateSectionSelect == 1
stateTyping == 2
stateResult == 3

\* the modes of the variant with a mode selection
modePractice == 0
modeMemory == 1

\* no second session
noTwin == [currentLine |-> 0, input |-> <<>>, results |-> <<>>, state |-> stateIntro,
           hint |-> <<>>, hintLevel |-> 0, run |-> "none"]

isComment(line) == HasPrefix(TrimSpace(line), <<"#">>)

headerText(line) == TrimSpace(TrimPrefix(TrimSpace(line), <<"#">>))

\* normalize without the lowercasing
RECURSIVE normalizeKeepCase(_)
normalizeKeepCase(s) ==
    IF s = <<>> THEN <<>>
    ELSE IF IsLetter(Head(s)) \/ IsDigit(Head(s))
         THEN <<Head(s)>> \o normalizeKeepCase(Tail(s))
         ELSE normalizeKeepCase(Tail(s))

RECURSIVE normalize(_)
normalize(s) ==
    IF s = <<>> THEN <<>>
    ELSE IF IsLetter(Head(s)) \/ IsDigit(Head(s))
         THEN <<ToLower(Head(s))>> \o normalize(Tail(s))
         ELSE normalize(Tail(s))

\* the index without the mid-word case
hintWordIdxAfterWord(in, expected) == Len(Fields(in))

\* the index getNextWordHint reads in expectedWords
hintWordIdx(in, expected) ==
    IF Len(in) > 0 /\ ~HasSuffix(in, <<" ">>)
    THEN Len(Fields(in)) - 1
    ELSE Len(Fields(in))

\* expectedWords[wordIdx] with wordIdx < 0: the Go runtime panics
getNextWordHintPanics(in, expected) == hintWordIdx(in, expected) < 0

\* a hint that shows the whole line at once
getNextWordHintWholeLine(in, expected) == expected

getNextWordHint(in, expected) ==
    LET expectedWords == Fields(expected)
        wordIdx == hintWordIdx(in, expected)
    IN  IF wordIdx < Len(expectedWords) THEN At(expectedWords, wordIdx) ELSE <<>>

Intro == <<"I", "n", "t", "r", "o">>

\* the loop that closes a section one line after the next header
RECURSIVE parseLoopOverlap(_, _, _, _)
parseLoopOverlap(ls, i, secs, cur) ==
    IF i >= Len(ls)
    THEN IF cur # <<>>
         THEN Append(secs, [cur[1] EXCEPT !.endIdx = Len(ls)])
         ELSE secs
    ELSE IF isComment(At(ls, i))
         THEN parseLoopOverlap(ls, i + 1,
                               IF cur # <<>>
                               THEN Append(secs, [cur[1] EXCEPT !.endIdx = i + 1])
                               ELSE secs,
                               <<[name |-> headerText(At(ls, i)), startIdx |-> i, endIdx |-> 0]>>)
         ELSE IF cur = <<>>
              THEN parseLoopOverlap(ls, i + 1, secs,
                                    <<[name |-> Intro, startIdx |-> 0, endIdx |-> 0]>>)
              ELSE parseLoopOverlap(ls, i + 1, secs, cur)

\* the loop of parseSections from index i on; cur is the open section, if any
RECURSIVE parseLoop(_, _, _, _)
parseLoop(ls, i, secs, cur) ==
    IF i >= Len(ls)
    THEN IF cur # <<>>
         THEN Append(secs, [cur[1] EXCEPT !.endIdx = Len(ls)])
         ELSE secs
    ELSE IF isComment(At(ls, i))
         THEN parseLoop(ls, i + 1,
                        IF cur # <<>> THEN Append(secs, [cur[1] EXCEPT !.endIdx = i]) ELSE secs,
                        <<[name |-> headerText(At(ls, i)), startIdx |-> i, endIdx |-> 0]>>)
         ELSE IF cur = <<>>
              THEN parseLoop(ls, i + 1, secs, <<[name |-> Intro, startIdx |-> 0, endIdx |-> 0]>>)
              ELSE parseLoop(ls, i + 1, secs, cur)

\* parseSections without the lines before the first header
parseSectionsNoIntro(ls) ==
    SelectSeq(parseLoop(ls, 0, <<>>, <<>>), LAMBDA sec : sec.name # Intro)

\* parseSections naming each section by the whole of its first line
parseSectionsRawNames(ls) ==
    LET secs == parseLoop(ls, 0, <<>>, <<>>)
    IN  [k \in 1..Len(secs) |-> [secs[k] EXCEPT !.name = At(ls, secs[k].startIdx)]]

parseSections(ls) == parseLoop(ls, 0, <<>>, <<>>)

\* a slice of n true values
makeTrues(n) == [i \in 1..n |-> TRUE]

\* make([]bool, n)
makeBools(n) == [i \in 1..n |-> FALSE]

\* skipComments that never leaves for stateResult
RECURSIVE skipCommentsNoResult(_, _, _, _)
skipCommentsNoResult(ls, cur, res, st) ==
    IF cur < Len(ls) /\ isComment(At(ls, cur))
    THEN skipCommentsNoResult(ls, cur + 1, [res EXCEPT ![cur + 1] = TRUE], st)
    ELSE [currentLine |-> cur, results |-> res, state |-> st]

\* skipComments that does not mark the comments it passes
RECURSIVE skipCommentsNoMark(_, _, _, _)
skipCommentsNoMark(ls, cur, res, st) ==
    IF cur < Len(ls) /\ isComment(At(ls, cur))
    THEN skipCommentsNoMark(ls, cur + 1, res, st)
    ELSE [currentLine |-> cur,
          results |-> res,
          state |-> IF cur >= Len(ls) THEN stateResult ELSE st]

\* skipComments with an if for the loop: it passes one comment at most
skipCommentsOnce(ls, cur, res, st) ==
    LET skip == cur < Len(ls) /\ isComment(At(ls, cur))
        next == IF skip THEN cur + 1 ELSE cur
    IN  [currentLine |-> next,
         results |-> IF skip THEN [res EXCEPT ![cur + 1] = TRUE] ELSE res,
         state |-> IF next >= Len(ls) THEN stateResult ELSE st]

\* skipComments, as the new (currentLine, results, state)
RECURSIVE skipComments(_, _, _, _)
skipComments(ls, cur, res, st) ==
    IF cur < Len(ls) /\ isComment(At(ls, cur))
    THEN skipComments(ls, cur + 1, [res EXCEPT ![cur + 1] = TRUE], st)
    ELSE [currentLine |-> cur,
          results |-> res,
          state |-> IF cur >= Len(ls) THEN stateResult ELSE st]

\* selectSection that takes the lines from the section's start to the end of the file
selectSectionToEnd(all, secs, sectionIdx) ==
    IF sectionIdx < 0 \/ sectionIdx >= Len(secs)
    THEN [lines |-> all, lineIndices |-> <<>>, results |-> makeBools(Len(all))]
    ELSE LET sec == At(secs, sectionIdx)
             ls == Slice(all, sec.startIdx, Len(all))
         IN  [lines |-> ls,
              lineIndices |-> [i \in 1..Len(ls) |-> sec.startIdx + (i - 1)],
              results |-> makeBools(Len(ls))]

\* selectSection that sizes the results of a section by the whole file
selectSectionAllResults(all, secs, sectionIdx) ==
    IF sectionIdx < 0 \/ sectionIdx >= Len(secs)
    THEN [lines |-> all, lineIndices |-> <<>>, results |-> makeBools(Len(all))]
    ELSE LET sec == At(secs, sectionIdx)
             ls == Slice(all, sec.startIdx, sec.endIdx)
         IN  [lines |-> ls,
              lineIndices |-> [i \in 1..Len(ls) |-> sec.startIdx + (i - 1)],
              results |-> makeBools(Len(all))]

\* selectSection, as the new (lines, lineIndices, results)
selectSection(all, secs, sectionIdx) ==
    IF sectionIdx < 0 \/ sectionIdx >= Len(secs)
    THEN [lines |-> all, lineIndices |-> <<>>, results |-> makeBools(Len(all))]
    ELSE LET sec == At(secs, sectionIdx)
             ls == Slice(all, sec.startIdx, sec.endIdx)
         IN  [lines |-> ls,
              lineIndices |-> [i \in 1..Len(ls) |-> sec.startIdx + (i - 1)],
              results |-> makeBools(Len(ls))]

\* the score loop without the test for comments
RECURSIVE CountFromWithHeaders(_, _, _, _)
CountFromWithHeaders(ls, res, i, onlyCorrect) ==
    IF i >= Len(ls) THEN 0
    ELSE (IF ~onlyCorrect \/ At(res, i) THEN 1 ELSE 0)
         + CountFromWithHeaders(ls, res, i + 1, onlyCorrect)

\* the score View prints in stateResult
RECURSIVE CountFrom(_, _, _, _)
CountFrom(ls, res, i, onlyCorrect) ==
    IF i >= Len(ls) THEN 0
    ELSE (IF ~isComment(At(ls, i)) /\ (~onlyCorrect \/ At(res, i)) THEN 1 ELSE 0)
         + CountFrom(ls, res, i + 1, onlyCorrect)

\* correct++ without the test of m.results[i]
scoreCorrectIgnoringResults(ls, res) == CountFrom(ls, res, 0, FALSE)

scoreCorrect(ls, res) == CountFrom(ls, res, 0, TRUE)

scoreTotal(ls, res) == CountFrom(ls, res, 0, FALSE)

-----------------------------------------------------------------------------
(* Input: the files a session is built from and the keys it receives *)

hdrA == <<"#", "a">>
lineAa == <<"a", " ", "a">>

\* the lines the lyrics files of Spec are made of
LinePool == {hdrA, lineAa}

\* readFile returns the non-blank lines; main rejects an empty file
FilesOf(pool, n) == UNION {[1..k -> pool] : k \in 1..n}

noMeta == [Title |-> <<>>, Artist |-> <<>>]
titled == [Title |-> <<"t">>, Artist |-> <<>>]

Metas == {noMeta, titled}

Key(type) == [Type |-> type, Runes |-> <<>>]
KeyRunes(runes) == [Type |-> "KeyRunes", Runes |-> runes]

\* the keys without runes; KeyUp stands for every key no handler names
PlainKeys ==
    {Key(t) : t \in {"KeyCtrlC", "KeyEsc", "KeyEnter", "KeySpace", "KeyTab",
                     "KeyBackspace", "KeyUp"}}

\* runes pressed at the menus (intro, section select, result)
MenuRunes == {<<"a">>, <<"A">>, <<"0">>, <<"1">>, <<"2">>, <<"3">>, <<"9">>, <<"1", "2">>,
              <<"y">>, <<"Y">>, <<"n">>, <<"N">>}

\* runes typed into a line
TypeRunes == {<<"a">>, <<Tab>>}

\* the g-dropping sessions: the line is "Livin'", and the user types (or pastes)
\* "livin" or "living"
livin == <<"l", "i", "v", "i", "n">>
living == <<"l", "i", "v", "i", "n", "g">>
lineLivin == <<"L", "i", "v", "i", "n", "'">>

LinePoolG == {lineLivin}

TypeRunesG == {livin, living, lineLivin}

\* the files of many sections: up to MaxSections headers, with or without a line
\* before the first header and after the last
headers(n) == [i \in 1..n |-> hdrA]

ManySectionFiles ==
    {pre \o headers(n) \o post :
         pre \in {<<>>, <<lineAa>>}, post \in {<<>>, <<lineAa>>}, n \in 1..MaxSections}

\* runes pressed at the menus of the sessions with many sections
MenuRunesS ==
    MenuRunes \cup {<<"4">>, <<"5">>, <<"6">>, <<"7">>, <<"8">>,
                    <<"0", "1">>, <<"1", "0">>, <<"1", "1">>}

TypeRunesS == {<<"a">>}

-----------------------------------------------------------------------------
(* The model and its handlers *)

\* initialModel that shows the intro screen for a title only
initialModelTitleOnly(m, ls) ==
    /\ meta = m
    /\ allLines = ls
    /\ lines = ls
    /\ lineIndices = <<>>
    /\ sections = parseSections(ls)
    /\ selectedSection = -1
    /\ currentLine = 0
    /\ input = <<>>
    /\ results = makeBools(Len(ls))
    /\ state = (IF m.Title = <<>> THEN stateSectionSelect ELSE stateIntro)
    /\ hint = <<>>
    /\ hintLevel = 0

initialModel(m, ls) ==
    /\ meta = m
    /\ allLines = ls
    /\ lines = ls
    /\ lineIndices = <<>>
    /\ sections = parseSections(ls)
    /\ selectedSection = -1
    /\ currentLine = 0
    /\ input = <<>>
    /\ results = makeBools(Len(ls))
    /\ state = (IF m.Title = <<>> /\ m.Artist = <<>> THEN stateSectionSelect ELSE stateIntro)
    /\ hint = <<>>
    /\ hintLevel = 0

\* a quit that clears the input on its way out
QuitClearingInput ==
    /\ run' = "quit"
    /\ input' = <<>>
    /\ UNCHANGED <<meta, allLines, lines, lineIndices, sections, selectedSection,
                   currentLine, results, state, hint, hintLevel>>

\* return m, tea.Quit
Quit == run' = "quit" /\ UNCHANGED fields

\* return m, nil with m as it was
Ignore == UNCHANGED <<fields, run>>

handleIntroInput(k) ==
    \/ /\ k.Type \in {"KeyCtrlC", "KeyEsc"}
       /\ Quit
    \/ /\ k.Type \in {"KeyEnter", "KeySpace"}
       /\ state' = stateSectionSelect
       /\ UNCHANGED <<meta, allLines, lines, lineIndices, sections, selectedSection,
                      currentLine, input, results, hint, hintLevel, run>>
    \/ /\ k.Type \notin {"KeyCtrlC", "KeyEsc", "KeyEnter", "KeySpace"}
       /\ Ignore

\* selectSection(idx); m.state = stateTyping; m.skipComments()
selectAndStart(idx) ==
    LET sel == selectSection(allLines, sections, idx)
        skp == skipComments(sel.lines, 0, sel.results, stateTyping)
    IN  /\ selectedSection' = idx
        /\ lines' = sel.lines
        /\ lineIndices' = sel.lineIndices
        /\ results' = skp.results
        /\ currentLine' = skp.currentLine
        /\ input' = <<>>
        /\ state' = skp.state
        /\ UNCHANGED <<meta, allLines, sections, hint, hintLevel, run>>

isSelectAll(k) == k.Type = "KeyRunes" /\ k.Runes \in {<<"a">>, <<"A">>}

\* the index with '0' for '1': '1' selects the second section
sectionKeyIdxFromZero(k) ==
    CASE k.Runes = <<"1">> -> 1 [] k.Runes = <<"2">> -> 2 [] k.Runes = <<"3">> -> 3
      [] k.Runes = <<"4">> -> 4 [] k.Runes = <<"5">> -> 5 [] k.Runes = <<"6">> -> 6
      [] k.Runes = <<"7">> -> 7 [] k.Runes = <<"8">> -> 8 [] k.Runes = <<"9">> -> 9
      [] OTHER -> -1

\* the section index a number key selects
sectionKeyIdx(k) ==
    CASE k.Runes = <<"1">> -> 0 [] k.Runes = <<"2">> -> 1 [] k.Runes = <<"3">> -> 2
      [] k.Runes = <<"4">> -> 3 [] k.Runes = <<"5">> -> 4 [] k.Runes = <<"6">> -> 5
      [] k.Runes = <<"7">> -> 6 [] k.Runes = <<"8">> -> 7 [] k.Runes = <<"9">> -> 8
      [] OTHER -> -1

\* isSelectNumber without the check against len(m.sections)
isSelectNumberUnchecked(k) ==
    /\ k.Type = "KeyRunes"
    /\ sectionKeyIdx(k) >= 0

isSelectNumber(k) ==
    /\ k.Type = "KeyRunes"
    /\ sectionKeyIdx(k) >= 0
    /\ sectionKeyIdx(k) < Len(sections)

handleSectionSelectInput(k) ==
    \/ /\ k.Type \in {"KeyCtrlC", "KeyEsc"}
       /\ Quit
    \/ /\ isSelectAll(k)
       /\ selectAndStart(-1)
    \/ /\ ~isSelectAll(k)
       /\ isSelectNumber(k)
       /\ selectAndStart(sectionKeyIdx(k))
    \/ /\ k.Type \notin {"KeyCtrlC", "KeyEsc"}
       /\ ~isSelectAll(k)
       /\ ~isSelectNumber(k)
       /\ Ignore

\* the comparison without normalize
inputMatchesExactly(in, expected) == in = expected

\* the comparison of KeyEnter
inputMatches(in, expected) == normalize(in) = normalize(expected)

\* KeyEnter that stays on a line until it is typed right
typingEnterRetryOnMiss ==
    IF inputMatches(input, At(lines, currentLine))
    THEN LET res == [results EXCEPT ![currentLine + 1] = TRUE]
             skp == skipComments(lines, currentLine + 1, res, state)
         IN  /\ results' = skp.results
             /\ currentLine' = skp.currentLine
             /\ state' = skp.state
             /\ input' = <<>>
             /\ hint' = <<>>
             /\ hintLevel' = 0
             /\ UNCHANGED <<meta, allLines, lines, lineIndices, sections, selectedSection, run>>
    ELSE /\ input' = <<>>
         /\ hint' = <<>>
         /\ hintLevel' = 0
         /\ UNCHANGED <<meta, allLines, lines, lineIndices, sections, selectedSection,
                        currentLine, results, state, run>>

\* KeyEnter that leaves the input typed in place
typingEnterKeepInput ==
    LET res == [results EXCEPT ![currentLine + 1] = inputMatches(input, At(lines, currentLine))]
        skp == skipComments(lines, currentLine + 1, res, state)
    IN  /\ results' = skp.results
        /\ currentLine' = skp.currentLine
        /\ state' = skp.state
        /\ hint' = <<>>
        /\ hintLevel' = 0
        /\ UNCHANGED <<meta, allLines, lines, lineIndices, sections, selectedSection,
                       input, run>>

\* KeyEnter that records the result one line too far
typingEnterWriteNext ==
    LET res == [results EXCEPT ![currentLine + 2] = inputMatches(input, At(lines, currentLine))]
        skp == skipComments(lines, currentLine + 1, res, state)
    IN  /\ results' = skp.results
        /\ currentLine' = skp.currentLine
        /\ state' = skp.state
        /\ input' = <<>>
        /\ hint' = <<>>
        /\ hintLevel' = 0
        /\ UNCHANGED <<meta, allLines, lines, lineIndices, sections, selectedSection, run>>

\* KeyEnter without the clearing of the hint
typingEnterKeepHint ==
    LET res == [results EXCEPT ![currentLine + 1] = inputMatches(input, At(lines, currentLine))]
        skp == skipComments(lines, currentLine + 1, res, state)
    IN  /\ results' = skp.results
        /\ currentLine' = skp.currentLine
        /\ state' = skp.state
        /\ input' = <<>>
        /\ UNCHANGED <<meta, allLines, lines, lineIndices, sections, selectedSection,
                       hint, hintLevel, run>>

typingEnter ==
    LET res == [results EXCEPT ![currentLine + 1] = inputMatches(input, At(lines, currentLine))]
        skp == skipComments(lines, currentLine + 1, res, state)
    IN  /\ results' = skp.results
        /\ currentLine' = skp.currentLine
        /\ state' = skp.state
        /\ input' = <<>>
        /\ hint' = <<>>
        /\ hintLevel' = 0
        /\ UNCHANGED <<meta, allLines, lines, lineIndices, sections, selectedSection, run>>

typingTab ==
    \/ /\ hintLevel = 0
       /\ getNextWordHintPanics(input, At(lines, currentLine))
       /\ run' = "panic"
       /\ UNCHANGED fields
    \/ /\ hintLevel = 0
       /\ ~getNextWordHintPanics(input, At(lines, currentLine))
       /\ hint' = getNextWordHint(input, At(lines, currentLine))
       /\ hintLevel' = 1
       /\ UNCHANGED <<meta, allLines, lines, lineIndices, sections, selectedSection,
                      currentLine, input, results, state, run>>
    \/ /\ hintLevel = 1
       /\ hint' = At(lines, currentLine)
       /\ hintLevel' = 2
       /\ UNCHANGED <<meta, allLines, lines, lineIndices, sections, selectedSection,
                      currentLine, input, results, state, run>>
    \/ /\ hintLevel \notin {0, 1}
       /\ Ignore

\* an edit that leaves the hint on the screen
typingEditKeepHint(in) ==
    /\ input' = in
    /\ UNCHANGED <<meta, allLines, lines, lineIndices, sections, selectedSection,
                   currentLine, results, state, hint, hintLevel, run>>

\* an edit of the input: m.input = in; m.hint = ""; m.hintLevel = 0
typingEdit(in) ==
    /\ input' = in
    /\ hint' = <<>>
    /\ hintLevel' = 0
    /\ UNCHANGED <<meta, allLines, lines, lineIndices, sections, selectedSection,
                   currentLine, results, state, run>>

\* a Backspace that steps back to the line before when there is nothing to delete
typingBackspaceToPreviousLine ==
    IF Len(input) = 0 /\ currentLine > 0
    THEN /\ currentLine' = currentLine - 1
         /\ hint' = <<>>
         /\ hintLevel' = 0
         /\ UNCHANGED <<meta, allLines, lines, lineIndices, sections, selectedSection,
                        input, results, state, run>>
    ELSE typingEdit(IF Len(input) > 0 THEN Slice(input, 0, Len(input) - 1) ELSE input)

typingBackspace ==
    typingEdit(IF Len(input) > 0 THEN Slice(input, 0, Len(input) - 1) ELSE input)

handleTypingInput(k, maxInput) ==
    \/ /\ k.Type \in {"KeyCtrlC", "KeyEsc"}
       /\ Quit
    \/ /\ k.Type = "KeyEnter"
       /\ typingEnter
    \/ /\ k.Type = "KeyTab"
       /\ typingTab
    \/ /\ k.Type = "KeyBackspace"
       /\ typingBackspace
    \/ /\ k.Type = "KeyRunes"
       /\ Len(input) + Len(k.Runes) <= maxInput
       /\ typingEdit(input \o k.Runes)
    \/ /\ k.Type = "KeySpace"
       /\ Len(input) + 1 <= maxInput
       /\ typingEdit(input \o <<" ">>)
    \/ /\ k.Type = "KeyUp"
       /\ Ignore

isYes(k) == k.Type = "KeyRunes" /\ k.Runes \in {<<"y">>, <<"Y">>}
isNo(k) == k.Type = "KeyRunes" /\ k.Runes \in {<<"n">>, <<"N">>}

\* the restart without m.results = make([]bool, len(m.lines))
resultRestartKeepResults ==
    LET skp == skipComments(lines, 0, results, stateTyping)
    IN  /\ currentLine' = skp.currentLine
        /\ input' = <<>>
        /\ results' = skp.results
        /\ state' = skp.state
        /\ UNCHANGED <<meta, allLines, lines, lineIndices, sections, selectedSection,
                       hint, hintLevel, run>>

\* a restart that goes back to the section menu
resultRestartToSectionSelect ==
    /\ currentLine' = 0
    /\ input' = <<>>
    /\ results' = makeBools(Len(lines))
    /\ state' = stateSectionSelect
    /\ UNCHANGED <<meta, allLines, lines, lineIndices, sections, selectedSection,
                   hint, hintLevel, run>>

resultRestart ==
    LET skp == skipComments(lines, 0, makeBools(Len(lines)), stateTyping)
    IN  /\ currentLine' = skp.currentLine
        /\ input' = <<>>
        /\ results' = skp.results
        /\ state' = skp.state
        /\ UNCHANGED <<meta, allLines, lines, lineIndices, sections, selectedSection,
                       hint, hintLevel, run>>

handleResultInput(k) ==
    \/ /\ k.Type \in {"KeyCtrlC", "KeyEsc"}
       /\ Quit
    \/ /\ isYes(k)
       /\ resultRestart
    \/ /\ isNo(k)
       /\ Quit
    \/ /\ k.Type \notin {"KeyCtrlC", "KeyEsc"}
       /\ ~isYes(k)
       /\ ~isNo(k)
       /\ Ignore

\* Update on a tea.KeyMsg k: the handler of the current state takes it; the
\* program handles keys until it quits or panics
Deliver(k, st) ==
    /\ run = "running"
    /\ state = st
    /\ msg' = k

\* the keys a session receives in the state it is in
KeysOf(typeRunes) ==
    PlainKeys \cup {KeyRunes(r) : r \in IF state = stateTyping THEN typeRunes ELSE MenuRunes}

\* no handler of main.go assigns a mode
UpdateIntro(typeRunes) ==
    /\ \E k \in KeysOf(typeRunes) : Deliver(k, stateIntro) /\ handleIntroInput(k)
    /\ UNCHANGED <<mode, twin>>

UpdateSectionSelect(typeRunes) ==
    /\ \E k \in KeysOf(typeRunes) : Deliver(k, stateSectionSelect) /\ handleSectionSelectInput(k)
    /\ UNCHANGED <<mode, twin>>

UpdateTyping(typeRunes, maxInput) ==
    /\ \E k \in KeysOf(typeRunes) : Deliver(k, stateTyping) /\ handleTypingInput(k, maxInput)
    /\ UNCHANGED <<mode, twin>>

\* Update in stateResult with the mode set back to modePractice
UpdateResultResetMode(typeRunes) ==
    /\ \E k \in KeysOf(typeRunes) : Deliver(k, stateResult) /\ handleResultInput(k)
    /\ mode' = modePractice
    /\ UNCHANGED twin

UpdateResult(typeRunes) ==
    /\ \E k \in KeysOf(typeRunes) : Deliver(k, stateResult) /\ handleResultInput(k)
    /\ UNCHANGED <<mode, twin>>

noMsg == [Type |-> "none", Runes |-> <<>>]

Init ==
    /\ \E m \in Metas : \E ls \in FilesOf(LinePool, MaxLines) : initialModel(m, ls)
    /\ mode = modePractice
    /\ twin = noTwin
    /\ run = "running"
    /\ msg = noMsg

Next ==
    \/ UpdateIntro(TypeRunes)
    \/ UpdateSectionSelect(TypeRunes)
    \/ UpdateTyping(TypeRunes, MaxInput)
    \/ UpdateResult(TypeRunes)

Spec == Init /\ [][Next]_vars

InitG ==
    /\ \E m \in Metas : \E ls \in FilesOf(LinePoolG, MaxLines) : initialModel(m, ls)
    /\ mode = modePractice
    /\ twin = noTwin
    /\ run = "running"
    /\ msg = noMsg

NextG ==
    \/ UpdateIntro(TypeRunesG)
    \/ UpdateSectionSelect(TypeRunesG)
    \/ UpdateTyping(TypeRunesG, MaxInputG)
    \/ UpdateResult(TypeRunesG)

\* the sessions over the g-dropping line
SpecG == InitG /\ [][NextG]_vars

\* the keys a session receives, with the runes pressed at the menus given
KeysOfMenu(menuRunes, typeRunes) ==
    PlainKeys \cup {KeyRunes(r) : r \in IF state = stateTyping THEN typeRunes ELSE menuRunes}

UpdateIntroS ==
    /\ \E k \in KeysOfMenu(MenuRunesS, TypeRunesS) :
           Deliver(k, stateIntro) /\ handleIntroInput(k)
    /\ UNCHANGED <<mode, twin>>

UpdateSectionSelectS ==
    /\ \E k \in KeysOfMenu(MenuRunesS, TypeRunesS) :
           Deliver(k, stateSectionSelect) /\ handleSectionSelectInput(k)
    /\ UNCHANGED <<mode, twin>>

UpdateTypingS ==
    /\ \E k \in KeysOfMenu(MenuRunesS, TypeRunesS) :
           Deliver(k, stateTyping) /\ handleTypingInput(k, MaxInput)
    /\ UNCHANGED <<mode, twin>>

UpdateResultS ==
    /\ \E k \in KeysOfMenu(MenuRunesS, TypeRunesS) :
           Deliver(k, stateResult) /\ handleResultInput(k)
    /\ UNCHANGED <<mode, twin>>

InitS ==
    /\ \E m \in Metas : \E ls \in ManySectionFiles : initialModel(m, ls)
    /\ mode = modePractice
    /\ twin = noTwin
    /\ run = "running"
    /\ msg = noMsg

NextS ==
    \/ UpdateIntroS
    \/ UpdateSectionSelectS
    \/ UpdateTypingS
    \/ UpdateResultS

\* the sessions over the files of many sections
SpecS == InitS /\ [][NextS]_vars

-----------------------------------------------------------------------------
(* The variant with a mode selection: it has no metadata, no intro and no hints; its
   first state is stateModeSelect, and its handlers of stateSectionSelect and
   stateResult are those of main.go *)

initialModelWithMode(ls) ==
    /\ allLines = ls
    /\ lines = ls
    /\ lineIndices = <<>>
    /\ sections = parseSections(ls)
    /\ selectedSection = -1
    /\ currentLine = 0
    /\ input = <<>>
    /\ results = makeBools(Len(ls))
    /\ state = stateModeSelect
    /\ mode = modePractice
    /\ twin = noTwin

handleModeSelectInput(k) ==
    \/ /\ k.Type \in {"KeyCtrlC", "KeyEsc"}
       /\ Quit
       /\ UNCHANGED <<mode, twin>>
    \/ /\ k = KeyRunes(<<"1">>)
       /\ mode' = modePractice
       /\ UNCHANGED twin
       /\ state' = stateSectionSelect
       /\ UNCHANGED <<meta, allLines, lines, lineIndices, sections, selectedSection,
                      currentLine, input, results, hint, hintLevel, run>>
    \/ /\ k = KeyRunes(<<"2">>)
       /\ mode' = modeMemory
       /\ UNCHANGED twin
       /\ state' = stateSectionSelect
       /\ UNCHANGED <<meta, allLines, lines, lineIndices, sections, selectedSection,
                      currentLine, input, results, hint, hintLevel, run>>
    \/ /\ k.Type \notin {"KeyCtrlC", "KeyEsc"}
       /\ k \notin {KeyRunes(<<"1">>), KeyRunes(<<"2">>)}
       /\ Ignore
       /\ UNCHANGED <<mode, twin>>

\* the variant's handler of stateTyping: KeyTab is a key it does not name, and the
\* other keys do what they do in main.go but for the hint, which the variant lacks
\* (hint and hintLevel keep their zero values)
handleTypingInputWithMode(k, maxInput) ==
    \/ /\ k.Type = "KeyTab"
       /\ Ignore
    \/ /\ k.Type # "KeyTab"
       /\ handleTypingInput(k, maxInput)

UpdateModeSelect ==
    \E k \in KeysOf(TypeRunesS) : Deliver(k, stateModeSelect) /\ handleModeSelectInput(k)

UpdateTypingWithMode ==
    /\ \E k \in KeysOf(TypeRunesS) :
           Deliver(k, stateTyping) /\ handleTypingInputWithMode(k, MaxInput)
    /\ UNCHANGED <<mode, twin>>

InitM ==
    /\ \E ls \in FilesOf(LinePool, MaxLines) : initialModelWithMode(ls)
    /\ meta = noMeta
    /\ hint = <<>>
    /\ hintLevel = 0
    /\ run = "running"
    /\ msg = noMsg

NextM ==
    \/ UpdateModeSelect
    \/ UpdateSectionSelect(TypeRunesS)
    \/ UpdateTypingWithMode
    \/ UpdateResult(TypeRunesS)

\* the sessions of the variant with a mode selection
SpecM == InitM /\ [][NextM]_vars

-----------------------------------------------------------------------------
(* The sessions of a user who confirms a line only when the input is the expected
   line, verbatim or in another letter case *)

TypeRunesP == {<<"a">>, <<"A">>}

differsOnlyByCase(a, b) ==
    /\ Len(a) = Len(b)
    /\ \A i \in 1..Len(a) : ToLower(a[i]) = ToLower(b[i])

UpdateTypingP ==
    /\ UpdateTyping(TypeRunesP, MaxInput)
    /\ msg'.Type = "KeyEnter" => differsOnlyByCase(input, At(lines, currentLine))

NextP ==
    \/ UpdateIntro(TypeRunesP)
    \/ UpdateSectionSelect(TypeRunesP)
    \/ UpdateTypingP
    \/ UpdateResult(TypeRunesP)

SpecP == Init /\ [][NextP]_vars

-----------------------------------------------------------------------------
(* parseSections applied to any line sequence, the empty one included *)

hdrIndented == <<" ", "#", "a">>
hdrIntro == <<"#", "I", "n", "t", "r", "o">>

ParseLines == {hdrA, hdrIndented, hdrIntro, lineAa}

ParseInputs == UNION {[1..k -> ParseLines] : k \in 0..MaxLines}

parsed == [Type |-> "parseSections", Runes |-> <<>>]

InitF ==
    /\ allLines \in ParseInputs
    /\ sections = <<>>
    /\ meta = noMeta
    /\ lines = <<>>
    /\ lineIndices = <<>>
    /\ selectedSection = -1
    /\ currentLine = 0
    /\ input = <<>>
    /\ results = <<>>
    /\ state = stateIntro
    /\ hint = <<>>
    /\ hintLevel = 0
    /\ mode = modePractice
    /\ twin = noTwin
    /\ run = "running"
    /\ msg = noMsg

\* sections := parseSections(lines)
applyParseSections ==
    /\ msg = noMsg
    /\ sections' = parseSections(allLines)
    /\ msg' = parsed
    /\ UNCHANGED <<meta, allLines, lines, lineIndices, selectedSection, currentLine, input,
                   results, state, hint, hintLevel, mode, twin, run>>

NextF == applyParseSections

SpecF == InitF /\ [][NextF]_vars

-----------------------------------------------------------------------------
(* wordsMatch, the word comparison the tests call; main.go does not define it.  It is
   modelled from the specification's rule: equal after normalize, or one normalized
   form is the other with a trailing "g", under a guard on the length of the shorter
   form.  The tests fix the guard at both ends: a shorter form of 3 letters is refused
   ("sin"/"sing"), one of 5 letters is accepted ("movin"/"moving"); for 4 letters
   they fix nothing, so the least accepted length is either 4 or 5. *)

GDropMinLens == {4, 5}

\* the rule with no guard on the length
wordsMatchUnguarded(minLen, a, b) ==
    LET na == normalize(a)
        nb == normalize(b)
    IN  na = nb \/ nb = na \o <<"g">> \/ na = nb \o <<"g">>

\* the rule with the dropped "g" accepted on the second word only
wordsMatchOneSided(minLen, a, b) ==
    LET na == normalize(a)
        nb == normalize(b)
    IN  na = nb \/ (Len(na) >= minLen /\ nb = na \o <<"g">>)

\* wordsMatch(a, b) of a code whose guard accepts shorter forms of minLen letters on
wordsMatchWith(minLen, a, b) ==
    LET na == normalize(a)
        nb == normalize(b)
    IN  \/ na = nb
        \/ Len(na) >= minLen /\ nb = na \o <<"g">>
        \/ Len(nb) >= minLen /\ na = nb \o <<"g">>

wordIn == <<"i", "n">>
wordIng == <<"i", "n", "g">>
wordSin == <<"s", "i", "n">>
wordSing == <<"s", "i", "n", "g">>
wordWin == <<"w", "i", "n">>
wordWing == <<"w", "i", "n", "g">>
wordGoin == <<"g", "o", "i", "n">>
wordGoing == <<"g", "o", "i", "n", "g">>
wordLiving == <<"L", "i", "v", "i", "n", "g">>

WordPool ==
    {<<>>, <<"'">>, <<"a">>, wordIn, wordIng, wordSin, wordSing, wordWin, wordWing,
     wordGoin, wordGoing, livin, living, lineLivin, wordLiving}

matched == [Type |-> "wordsMatch", Runes |-> <<>>]

\* the fields but input, lines and results, at their zero values
restAtZero ==
    /\ meta = noMeta
    /\ allLines = <<>>
    /\ lineIndices = <<>>
    /\ sections = <<>>
    /\ selectedSection = -1
    /\ currentLine = 0
    /\ state = stateTyping
    /\ hint = <<>>
    /\ hintLevel = 0
    /\ mode = modePractice
    /\ twin = noTwin
    /\ run = "running"
    /\ msg = noMsg

\* the two words are input and lines[0]
InitW ==
    /\ input \in WordPool
    /\ \E b \in WordPool : lines = <<b>>
    /\ results = <<>>
    /\ restAtZero

\* results := wordsMatch(a, b), wordsMatch(b, a)
applyWordsMatch ==
    /\ msg = noMsg
    /\ \E minLen \in GDropMinLens :
           results' = <<wordsMatchWith(minLen, input, lines[1]),
                        wordsMatchWith(minLen, lines[1], input)>>
    /\ msg' = matched
    /\ UNCHANGED <<meta, allLines, lines, lineIndices, sections, selectedSection,
                   currentLine, input, state, hint, hintLevel, mode, twin, run>>

NextW == applyWordsMatch

SpecW == InitW /\ [][NextW]_vars

-----------------------------------------------------------------------------
(* The sessions of a user who types the apostrophe of "Livin'" as the right single
   quotation mark U+2019, a character of three bytes in UTF-8.  A part of its bytes
   is no letter, no digit and no white space to unicode, as is the whole. *)

curlyQuote == <<"E2", "80", "99">>

TypeRunesB == {<<"a">>, curlyQuote}

NextB ==
    \/ UpdateIntro(TypeRunesB)
    \/ UpdateSectionSelect(TypeRunesB)
    \/ UpdateTyping(TypeRunesB, MaxInput)
    \/ UpdateResult(TypeRunesB)

SpecB == Init /\ [][NextB]_vars

-----------------------------------------------------------------------------
(* The sessions over every kind of metadata: none, a title, an artist, both *)

byArtist == [Title |-> <<>>, Artist |-> <<"r">>]
titledByArtist == [Title |-> <<"t">>, Artist |-> <<"r">>]

MetasI == {noMeta, titled, byArtist, titledByArtist}

InitI ==
    /\ \E m \in MetasI : \E ls \in FilesOf(LinePool, MaxLines) : initialModel(m, ls)
    /\ mode = modePractice
    /\ twin = noTwin
    /\ run = "running"
    /\ msg = noMsg

NextI ==
    \/ UpdateIntro(TypeRunesS)
    \/ UpdateSectionSelect(TypeRunesS)
    \/ UpdateTyping(TypeRunesS, MaxInput)
    \/ UpdateResult(TypeRunesS)

SpecI == InitI /\ [][NextI]_vars

-----------------------------------------------------------------------------
(* Two sessions over the same file that receive the same keys, but for Tab, which each
   receives on its own.  The handlers of the second session are those of the first,
   as functions of its record. *)

\* the first session, as a record of the second's shape
sessionOf ==
    [currentLine |-> currentLine, input |-> input, results |-> results, state |-> state,
     hint |-> hint, hintLevel |-> hintLevel, run |-> run]

\* handleTypingInput of the second session: tea.KeyEnter
twinEnter(t) ==
    LET res == [t.results EXCEPT ![t.currentLine + 1] =
                    inputMatches(t.input, At(lines, t.currentLine))]
        skp == skipComments(lines, t.currentLine + 1, res, t.state)
    IN  [t EXCEPT !.results = skp.results, !.currentLine = skp.currentLine,
                  !.state = skp.state, !.input = <<>>, !.hint = <<>>, !.hintLevel = 0]

\* handleTypingInput of the second session: tea.KeyTab
twinTab(t) ==
    IF t.hintLevel = 0
    THEN IF getNextWordHintPanics(t.input, At(lines, t.currentLine))
         THEN [t EXCEPT !.run = "panic"]
         ELSE [t EXCEPT !.hint = getNextWordHint(t.input, At(lines, t.currentLine)),
                        !.hintLevel = 1]
    ELSE IF t.hintLevel = 1
         THEN [t EXCEPT !.hint = At(lines, t.currentLine), !.hintLevel = 2]
         ELSE t

\* handleTypingInput of the second session: an edit of the input
twinEdit(t, in) == [t EXCEPT !.input = in, !.hint = <<>>, !.hintLevel = 0]

\* handleTypingInput of the second session, for the keys both sessions receive
twinTyping(t, k) ==
    CASE k.Type = "KeyEnter" -> twinEnter(t)
      [] k.Type = "KeyBackspace" ->
             twinEdit(t, IF Len(t.input) > 0 THEN Slice(t.input, 0, Len(t.input) - 1)
                         ELSE t.input)
      [] k.Type = "KeyRunes" -> twinEdit(t, t.input \o k.Runes)
      [] k.Type = "KeySpace" -> twinEdit(t, t.input \o <<" ">>)
      [] OTHER -> t

\* the keys both sessions receive in stateTyping: the edits and Enter
SharedKeys ==
    {Key(t) : t \in {"KeyEnter", "KeySpace", "KeyBackspace"}}
        \cup {KeyRunes(r) : r \in TypeRunes}

typedLen(k) == IF k.Type = "KeySpace" THEN 1 ELSE Len(k.Runes)

\* a key at a menu goes to both sessions, which are in the same state there
twinFollows ==
    /\ twin.state = state
    /\ twin.run = run
    /\ twin' = [twin EXCEPT !.currentLine = currentLine', !.input = input',
                            !.results = results', !.state = state', !.run = run']

UpdateIntroT ==
    /\ \E k \in KeysOf(TypeRunes) : Deliver(k, stateIntro) /\ handleIntroInput(k)
    /\ twinFollows
    /\ UNCHANGED mode

UpdateSectionSelectT ==
    /\ \E k \in KeysOf(TypeRunes) : Deliver(k, stateSectionSelect) /\ handleSectionSelectInput(k)
    /\ twinFollows
    /\ UNCHANGED mode

UpdateResultT ==
    /\ \E k \in KeysOf(TypeRunes) : Deliver(k, stateResult) /\ handleResultInput(k)
    /\ twinFollows
    /\ UNCHANGED mode

\* an edit or Enter goes to both sessions; a session that has ended takes no key
UpdateTypingBoth ==
    \E k \in SharedKeys :
        LET firstTakes == run = "running" /\ state = stateTyping
            twinTakes == twin.run = "running" /\ twin.state = stateTyping
        IN  /\ firstTakes \/ twinTakes
            /\ twinTakes => Len(twin.input) + typedLen(k) <= MaxInput
            /\ IF firstTakes
               THEN Deliver(k, stateTyping) /\ handleTypingInput(k, MaxInput)
               ELSE msg' = k /\ UNCHANGED <<fields, run>>
            /\ twin' = IF twinTakes THEN twinTyping(twin, k) ELSE twin
            /\ UNCHANGED mode

\* Tab in the first session only
UpdateTabFirst ==
    /\ Deliver(Key("KeyTab"), stateTyping)
    /\ typingTab
    /\ UNCHANGED <<mode, twin>>

\* Tab in the second session only
UpdateTabTwin ==
    /\ twin.run = "running"
    /\ twin.state = stateTyping
    /\ twin' = twinTab(twin)
    /\ UNCHANGED <<fields, mode, run, msg>>

InitT ==
    /\ \E m \in Metas : \E ls \in FilesOf(LinePool, MaxLines) : initialModel(m, ls)
    /\ mode = modePractice
    /\ run = "running"
    /\ msg = noMsg
    /\ twin = sessionOf

NextT ==
    \/ UpdateIntroT
    \/ UpdateSectionSelectT
    \/ UpdateTypingBoth
    \/ UpdateTabFirst
    \/ UpdateTabTwin
    \/ UpdateResultT

SpecT == InitT /\ [][NextT]_vars

-----------------------------------------------------------------------------
(* The sessions of a user who does not stop pressing Enter: an Enter in stateTyping is
   always possible while the session runs, and it is taken again and again *)

ConfirmStep ==
    /\ Deliver(Key("KeyEnter"), stateTyping)
    /\ typingEnter
    /\ UNCHANGED <<mode, twin>>

NextL ==
    \/ UpdateIntro(TypeRunesS)
    \/ UpdateSectionSelect(TypeRunesS)
    \/ UpdateTyping(TypeRunesS, MaxInput)
    \/ UpdateResult(TypeRunesS)

SpecL == Init /\ [][NextL]_vars /\ WF_vars(ConfirmStep)

-----------------------------------------------------------------------------
(* getNextWordHint applied to any typed input and expected line *)

lineA == <<"a">>
lineAg == <<"a", " ", "g">>

\* the strings of up to n characters over the alphabet abc
StringsOver(abc, n) == UNION {[1..k -> abc] : k \in 0..n}

hinted == [Type |-> "getNextWordHint", Runes |-> <<>>]

\* the arguments are input and lines[0]
InitH ==
    /\ input \in StringsOver({"a", " ", Tab}, MaxInput)
    /\ \E e \in {lineA, lineAa, lineAg} : lines = <<e>>
    /\ results = <<FALSE>>
    /\ restAtZero

\* hint := getNextWordHint(input, expected)
applyGetNextWordHint ==
    /\ msg = noMsg
    /\ msg' = hinted
    /\ \/ /\ getNextWordHintPanics(input, lines[1])
          /\ run' = "panic"
          /\ UNCHANGED hint
       \/ /\ ~getNextWordHintPanics(input, lines[1])
          /\ hint' = getNextWordHint(input, lines[1])
          /\ UNCHANGED run
    /\ UNCHANGED <<meta, allLines, lines, lineIndices, sections, selectedSection,
                   currentLine, input, results, state, hintLevel, mode, twin>>

NextH == applyGetNextWordHint

SpecH == InitH /\ [][NextH]_vars

-----------------------------------------------------------------------------
(* normalize applied to any string, and again to its result *)

NormalizeChars == {"a", "A", "1", "'", " "}

normalized == [Type |-> "normalize", Runes |-> <<>>]

\* the argument is input
InitN ==
    /\ input \in StringsOver(NormalizeChars, MaxInput)
    /\ lines = <<>>
    /\ results = <<>>
    /\ restAtZero

\* hint := normalize(input); lines[0] := normalize(hint)
applyNormalize ==
    /\ msg = noMsg
    /\ msg' = normalized
    /\ hint' = normalize(input)
    /\ lines' = <<normalize(hint')>>
    /\ UNCHANGED <<meta, allLines, lineIndices, sections, selectedSection, currentLine,
                   input, results, state, hintLevel, mode, twin, run>>

NextN == applyNormalize

SpecN == InitN /\ [][NextN]_vars

-----------------------------------------------------------------------------
(* Properties *)

\* the handler of state st takes a key of the given type in this step
Handles(type, st) == run = "running" /\ state = st /\ msg'.Type = type

\* the line the user is prompted for
expectedLine == At(lines, currentLine)

\* the first index from c on that holds no header, len(ls) if there is none
firstNonHeaderFrom(ls, c) ==
    LET S == {j \in c..(Len(ls) - 1) : ~isComment(At(ls, j))}
    IN  IF S = {} THEN Len(ls) ELSE CHOOSE j \in S : \A k \in S : j <= k

\* a word without its punctuation, in lower case
bareWord(w) ==
    LET kept == SelectSeq(w, LAMBDA c : IsLetter(c) \/ IsDigit(c))
    IN  [i \in 1..Len(kept) |-> ToLower(kept[i])]

\* a and b have the same words up to letter case, punctuation and white space
sameWordsModuloCase(a, b) ==
    LET wa == Fields(a)
        wb == Fields(b)
    IN  /\ Len(wa) = Len(wb)
        /\ \A i \in 1..Len(wa) : bareWord(wa[i]) = bareWord(wb[i])

\* one of the words is the other with a "g" appended
gDropped(a, b) ==
    \/ bareWord(a) = bareWord(b) \o <<"g">>
    \/ bareWord(b) = bareWord(a) \o <<"g">>

\* a and b have the same words up to g-dropping, and some word is g-dropped
onlyGDropping(a, b) ==
    LET wa == Fields(a)
        wb == Fields(b)
    IN  /\ Len(wa) = Len(wb)
        /\ \A i \in 1..Len(wa) : bareWord(wa[i]) = bareWord(wb[i]) \/ gDropped(wa[i], wb[i])
        /\ \E i \in 1..Len(wa) : gDropped(wa[i], wb[i])

digitValue(c) ==
    CASE c = "0" -> 0 [] c = "1" -> 1 [] c = "2" -> 2 [] c = "3" -> 3 [] c = "4" -> 4
      [] c = "5" -> 5 [] c = "6" -> 6 [] c = "7" -> 7 [] c = "8" -> 8 [] c = "9" -> 9

\* the number a token of decimal digits writes, -1 for any other token
RECURSIVE decimalFrom(_, _)
decimalFrom(runes, acc) ==
    IF runes = <<>> THEN acc
    ELSE IF ~IsDigit(Head(runes)) THEN -1
         ELSE decimalFrom(Tail(runes), 10 * acc + digitValue(Head(runes)))

tokenPosition(runes) == IF runes = <<>> THEN -1 ELSE decimalFrom(runes, 0)

\* the token names an existing section by its 1-based position
namesSection(runes) == tokenPosition(runes) >= 1 /\ tokenPosition(runes) <= Len(sections)

\* the token is the "all sections" choice
namesAll(runes) == runes \in {<<"a">>, <<"A">>}

\* results is fresh for ls but for its leading headers, which are marked
freshlyStarted(ls, cur, res) ==
    /\ cur = firstNonHeaderFrom(ls, 0)
    /\ Len(res) = Len(ls)
    /\ \A i \in 0..(Len(ls) - 1) : At(res, i) <=> i < cur

\* C1: the cursor is in 0..len(practice set), and it is at len(practice set) exactly
\* when the interaction state is Result.
C1_CursorInRange ==
    /\ 0 <= currentLine
    /\ currentLine <= Len(lines)
    /\ (currentLine = Len(lines)) <=> (state = stateResult)

C1_Witness ==
    /\ msg.Type = "KeyEnter"
    /\ state = stateResult
    /\ currentLine = Len(lines)
    /\ \E i \in 0..(Len(lines) - 1) : ~isComment(At(lines, i))

\* C2: in Typing the line at the cursor is no header, and every header below the
\* cursor is marked matched.
C2_NeverPromptedAtHeader ==
    state = stateTyping =>
        /\ currentLine < Len(lines)
        /\ ~isComment(expectedLine)
        /\ \A i \in 0..(currentLine - 1) : isComment(At(lines, i)) => At(results, i)

C2_Witness ==
    /\ msg.Type = "KeyEnter"
    /\ state = stateTyping
    /\ currentLine >= 2
    /\ isComment(At(lines, currentLine - 1))
    /\ ~isComment(At(lines, currentLine - 2))

\* C3: a Confirm of an input that differs from the expected line only by g-dropping
\* records the line as matched.
C3_GDroppingMatched ==
    [][(Handles("KeyEnter", stateTyping) /\ onlyGDropping(input, expectedLine))
           => At(results', currentLine)]_vars

\* C4: a Confirm of an input whose number of words differs from the expected line's
\* records the line as not matched.
C4_WordCountMismatchRejected ==
    [][(Handles("KeyEnter", stateTyping) /\ Len(Fields(input)) # Len(Fields(expectedLine)))
           => ~At(results', currentLine)]_vars

C6_ConfirmAdvances ==
    [][Handles("KeyEnter", stateTyping) =>
           /\ currentLine' = firstNonHeaderFrom(lines, currentLine + 1)
           /\ \A i \in (currentLine + 1)..(currentLine' - 1) : At(results', i)
           /\ (state' = stateResult) <=> (currentLine' = Len(lines))
           /\ state' \in {stateTyping, stateResult}]_vars

C6_Witness ==
    /\ msg.Type = "KeyEnter"
    /\ state = stateTyping
    /\ lines = <<lineAa, hdrA, lineAa>>
    /\ currentLine = 2
    /\ At(results, 1)

\* C7: a hint request at level 0 shows the next word and goes to level 1, at level 1
\* it shows the whole line and goes to level 2, at level 2 it changes nothing.
C7_HintRatchet ==
    [][Handles("KeyTab", stateTyping) =>
           /\ hintLevel = 0 => hintLevel' = 1 /\ hint' = getNextWordHint(input, expectedLine)
           /\ hintLevel = 1 => hintLevel' = 2 /\ hint' = expectedLine
           /\ hintLevel = 2 => UNCHANGED <<fields, run>>]_vars

\* C8 as claimed: a hint request while the input equals the expected line changes
\* nothing.
C8_HintOnFullLineIsNoOp ==
    [][(Handles("KeyTab", stateTyping) /\ input = expectedLine)
           => UNCHANGED <<fields, run>>]_vars

\* the last word of a line
lastWord(line) == Fields(line)[Len(Fields(line))]

\* C8: a hint request while the input equals the expected line never fails; it changes
\* nothing but the hint, which escalates as anywhere else: to level 1 (with the last word
\* of the line, when the line does not end in a space) at level 0, to level 2 with the
\* whole line at level 1, no change at level 2.
C8_HintOnFullLineEscalates ==
    [][(Handles("KeyTab", stateTyping) /\ input = expectedLine) =>
           /\ run' = "running"
           /\ UNCHANGED <<meta, allLines, lines, lineIndices, sections, selectedSection,
                          currentLine, input, results, state>>
           /\ hintLevel = 0 =>
                  /\ hintLevel' = 1
                  /\ expectedLine[Len(expectedLine)] # " " => hint' = lastWord(expectedLine)
           /\ hintLevel = 1 => hintLevel' = 2 /\ hint' = expectedLine
           /\ hintLevel = 2 => hintLevel' = 2 /\ hint' = hint]_vars

C8_Witness ==
    /\ msg.Type = "KeyTab"
    /\ state = stateTyping
    /\ input = lineAa
    /\ expectedLine = lineAa
    /\ hintLevel = 1
    /\ hint = <<"a">>

\* C9: in SectionSelect a token that is neither a/A nor the position of a section
\* changes nothing.
C9_InvalidTokenIgnored ==
    [][(Handles("KeyRunes", stateSectionSelect)
            /\ ~namesAll(msg'.Runes)
            /\ ~namesSection(msg'.Runes))
           => UNCHANGED <<fields, run>>]_vars

C9_Witness ==
    /\ msg = KeyRunes(<<"3">>)
    /\ state = stateSectionSelect
    /\ Len(sections) = 2

\* C10: selecting section k practices exactly the lines of the k-th section, selecting
\* all practices every line; the results are fresh, the input is empty, the cursor is on
\* the first line that is no header and exactly the headers before it are marked.
C10_SelectionStartsSection ==
    [][Handles("KeyRunes", stateSectionSelect) =>
           /\ namesAll(msg'.Runes) =>
                  /\ lines' = allLines
                  /\ input' = <<>>
                  /\ freshlyStarted(lines', currentLine', results')
           /\ (~namesAll(msg'.Runes) /\ namesSection(msg'.Runes)) =>
                  LET sec == sections[tokenPosition(msg'.Runes)]
                  IN  /\ lines' = Slice(allLines, sec.startIdx, sec.endIdx)
                      /\ input' = <<>>
                      /\ freshlyStarted(lines', currentLine', results')]_vars

C10_Witness ==
    /\ msg = KeyRunes(<<"2">>)
    /\ state = stateTyping
    /\ allLines = <<lineAa, hdrA, lineAa>>
    /\ lines = <<hdrA, lineAa>>
    /\ currentLine = 1
    /\ results = <<TRUE, FALSE>>

\* the token writes a position in decimal, without a leading zero
isNumeral(runes) == tokenPosition(runes) >= 1 /\ Head(runes) # "0"

\* this step selects exactly the section at the 1-based position p
selectsExactly(p) ==
    LET sec == sections[p]
    IN  /\ selectedSection' = p - 1
        /\ lines' = Slice(allLines, sec.startIdx, sec.endIdx)
        /\ lineIndices' = [i \in 1..(sec.endIdx - sec.startIdx) |-> sec.startIdx + (i - 1)]
        /\ state' \in {stateTyping, stateResult}

\* C11 as claimed: whatever the number of sections, the token that writes the 1-based
\* position of a section is accepted in SectionSelect and selects exactly that section.
C11_EverySectionSelectable ==
    [][(Handles("KeyRunes", stateSectionSelect)
            /\ isNumeral(msg'.Runes)
            /\ namesSection(msg'.Runes))
           => selectsExactly(tokenPosition(msg'.Runes))]_vars

\* the token is one digit from 1 to 9
isDigitKey(runes) == Len(runes) = 1 /\ tokenPosition(runes) >= 1

\* C11: the sections at the positions 1 to 9 are selected, each exactly, by the digit of
\* their position; every other token but a/A changes nothing, so a section at position 10
\* or beyond has no token of its own.
C11_FirstNineSelectable ==
    [][(Handles("KeyRunes", stateSectionSelect) /\ ~namesAll(msg'.Runes)) =>
           IF isDigitKey(msg'.Runes) /\ namesSection(msg'.Runes)
           THEN selectsExactly(tokenPosition(msg'.Runes))
           ELSE UNCHANGED <<fields, run>>]_vars

C11_Witness ==
    /\ msg = KeyRunes(<<"9">>)
    /\ Len(sections) >= 10
    /\ selectedSection = 8
    /\ lineIndices = <<8>>
    /\ lines = <<hdrA>>
    /\ state = stateResult

\* every line of ls is a header
onlyHeaders(ls) == \A i \in 1..Len(ls) : isComment(ls[i])

\* this step is a selection in SectionSelect
isSelection ==
    /\ Handles("KeyRunes", stateSectionSelect)
    /\ namesAll(msg'.Runes) \/ namesSection(msg'.Runes)

\* this step is a restart in Result
isRestart ==
    /\ Handles("KeyRunes", stateResult)
    /\ msg'.Runes \in {<<"y">>, <<"Y">>}

\* C12: a selection or a restart of a practice set of headers only ends in Result in the
\* same step, with every result true and the score 0/0, and nothing fails.
C12_OnlyHeadersGoesToResult ==
    [][((isSelection \/ isRestart) /\ onlyHeaders(lines')) =>
           /\ state' = stateResult
           /\ run' = "running"
           /\ currentLine' = Len(lines')
           /\ Len(results') = Len(lines')
           /\ \A i \in 1..Len(results') : results'[i]
           /\ scoreCorrect(lines', results') = 0
           /\ scoreTotal(lines', results') = 0]_vars

C12_Witness ==
    /\ msg = KeyRunes(<<"y">>)
    /\ state = stateResult
    /\ allLines = <<hdrA, lineAa, hdrA>>
    /\ selectedSection = 1
    /\ lines = <<hdrA>>
    /\ results = <<TRUE>>

\* the lines the selection of section idx practises, idx = -1 for all
selectedLines(idx) ==
    IF idx = -1 THEN allLines
    ELSE Slice(allLines, sections[idx + 1].startIdx, sections[idx + 1].endIdx)

\* C13: a restart leaves the session as the selection left it: the same practice set
\* and selected section, the cursor on the first line that is no header, exactly the
\* headers before it marked, the input and the hint empty, hintLevel 0, and the state
\* Typing, or Result when the set has only headers.
C13_RestartIsFreshSelection ==
    [][isRestart =>
           /\ UNCHANGED <<meta, allLines, sections, lines, lineIndices, selectedSection>>
           /\ lines' = selectedLines(selectedSection')
           /\ freshlyStarted(lines', currentLine', results')
           /\ input' = <<>>
           /\ hint' = <<>>
           /\ hintLevel' = 0
           /\ state' = (IF onlyHeaders(lines') THEN stateResult ELSE stateTyping)
           /\ run' = "running"]_vars

C13_Witness ==
    /\ msg = KeyRunes(<<"y">>)
    /\ state = stateTyping
    /\ allLines = <<lineAa, hdrA, lineAa>>
    /\ selectedSection = 1
    /\ lines = <<hdrA, lineAa>>
    /\ currentLine = 1
    /\ results = <<TRUE, FALSE>>
    /\ input = <<>>

\* C14 as claimed: after a restart every result is false and the cursor is 0.
C14_RestartAllFalseAtZero ==
    [][isRestart =>
           /\ currentLine' = 0
           /\ \A i \in 1..Len(results') : ~results'[i]]_vars

\* C14: after a restart the cursor is on the first line that is no header, the results
\* of the headers before it are true and every other result is false; every result is
\* false and the cursor is 0 when the practice set begins with a line that is no header.
C14_RestartFreshPastHeaders ==
    [][isRestart =>
           /\ freshlyStarted(lines', currentLine', results')
           /\ ~isComment(lines[1]) =>
                  /\ currentLine' = 0
                  /\ \A i \in 1..Len(results') : ~results'[i]]_vars

C14_Witness ==
    /\ msg = KeyRunes(<<"Y">>)
    /\ state = stateTyping
    /\ lines = <<hdrA, hdrA, lineAa>>
    /\ currentLine = 2
    /\ results = <<TRUE, TRUE, FALSE>>

\* C15: a restart keeps the mode, the selected section and the practice set; this is
\* so at every restart of a session, however many there are.
C15_RestartKeepsChoices ==
    [][isRestart =>
           /\ mode' = mode
           /\ selectedSection' = selectedSection
           /\ lines' = lines]_vars

C15_Witness ==
    /\ msg = KeyRunes(<<"y">>)
    /\ mode = modeMemory
    /\ allLines = <<lineAa, hdrA, lineAa>>
    /\ selectedSection = 1
    /\ lines = <<hdrA, lineAa>>
    /\ state = stateTyping

\* the indices of the practice set that hold no header
nonHeaders == {i \in 0..(Len(lines) - 1) : ~isComment(At(lines, i))}

\* C16: in Result the numerator of the score is the number of lines that are no header
\* and whose result is true, the denominator the number of lines that are no header, and
\* the numerator is at most the denominator.
C16_ScoreCountsNonHeaders ==
    state = stateResult =>
        /\ scoreCorrect(lines, results) = Cardinality({i \in nonHeaders : At(results, i)})
        /\ scoreTotal(lines, results) = Cardinality(nonHeaders)
        /\ scoreCorrect(lines, results) <= scoreTotal(lines, results)

C16_Witness ==
    /\ state = stateResult
    /\ lines = <<hdrA, lineAa, lineAa>>
    /\ results = <<TRUE, TRUE, FALSE>>
    /\ scoreCorrect(lines, results) = 1
    /\ scoreTotal(lines, results) = 2

\* C17: when the user confirms each line with the expected line typed verbatim or in
\* another letter case, every line below the cursor is matched, and in Result every line
\* is matched and the score is N/N, N the number of lines that are no header.
C17_PerfectAttemptScoresAll ==
    /\ \A i \in 0..(currentLine - 1) : At(results, i)
    /\ state = stateResult =>
           /\ currentLine = Len(lines)
           /\ scoreTotal(lines, results) = Cardinality(nonHeaders)
           /\ scoreCorrect(lines, results) = scoreTotal(lines, results)

C17_Witness ==
    /\ msg.Type = "KeyEnter"
    /\ state = stateResult
    /\ lines = <<lineAa, hdrA, lineAa>>
    /\ results = <<TRUE, TRUE, TRUE>>
    /\ scoreCorrect(lines, results) = 2
    /\ scoreTotal(lines, results) = 2

\* the indices of ls that hold a header
headerIndices(ls) == {i \in 0..(Len(ls) - 1) : isComment(At(ls, i))}

\* C18: the ranges of the sections of parseSections are not empty, are in increasing
\* order and partition [0, len(lines)): the first starts at 0, each ends where the next
\* starts, the last ends at len(lines).
C18_SectionsPartitionLines ==
    msg = parsed =>
        /\ \A k \in 1..Len(sections) : sections[k].startIdx < sections[k].endIdx
        /\ \A k \in 1..(Len(sections) - 1) : sections[k].endIdx = sections[k + 1].startIdx
        /\ sections # <<>> =>
               /\ sections[1].startIdx = 0
               /\ sections[Len(sections)].endIdx = Len(allLines)
        /\ \A i \in 0..(Len(allLines) - 1) :
               Cardinality({k \in 1..Len(sections) :
                                sections[k].startIdx <= i /\ i < sections[k].endIdx}) = 1

C18_Witness ==
    /\ msg = parsed
    /\ allLines = <<lineAa, hdrA, hdrIndented>>
    /\ Len(sections) = 3
    /\ sections[2].startIdx = 1
    /\ sections[2].endIdx = 2

\* C19: parseSections makes one section for each header and, exactly when the first
\* line is no header, one more before them: it is named "Intro", starts at 0 and ends at
\* the first header, or at len(lines) when there is no header; no line gives no section.
C19_IntroSection ==
    msg = parsed =>
        LET hs == headerIndices(allLines)
            withIntro == allLines # <<>> /\ ~isComment(allLines[1])
        IN  /\ allLines = <<>> => sections = <<>>
            /\ Len(sections) = Cardinality(hs) + (IF withIntro THEN 1 ELSE 0)
            /\ withIntro =>
                   sections[1] =
                       [name |-> Intro,
                        startIdx |-> 0,
                        endIdx |-> IF hs = {} THEN Len(allLines)
                                   ELSE CHOOSE i \in hs : \A j \in hs : i <= j]
            /\ ~withIntro =>
                   \A k \in 1..Len(sections) :
                       /\ isComment(At(allLines, sections[k].startIdx))
                       /\ sections[k].name = headerText(At(allLines, sections[k].startIdx))

C19_Witness ==
    /\ msg = parsed
    /\ allLines = <<lineAa, hdrIntro, lineAa>>
    /\ sections = <<[name |-> Intro, startIdx |-> 0, endIdx |-> 1],
                    [name |-> Intro, startIdx |-> 1, endIdx |-> 3]>>

\* this step handles a Cancel: Ctrl+C or Esc in any state, n or N in Result
isCancel ==
    /\ run = "running"
    /\ \/ msg'.Type \in {"KeyCtrlC", "KeyEsc"}
       \/ /\ state = stateResult
          /\ msg'.Type = "KeyRunes"
          /\ msg'.Runes \in {<<"n">>, <<"N">>}

\* C20: a Cancel in Intro, SectionSelect, Typing or Result, and n or N in Result, ends
\* the session and leaves every field of the model as it was; an ended session takes no
\* further step.
C20_CancelTerminatesUnchanged ==
    [][/\ run = "running"
       /\ isCancel => (run' = "quit" /\ UNCHANGED <<fields, mode>>)]_vars

C20_Witness ==
    /\ run = "quit"
    /\ msg.Type = "KeyEsc"
    /\ state = stateTyping
    /\ lines = <<lineAa, lineAa>>
    /\ currentLine = 1
    /\ results = <<TRUE, FALSE>>
    /\ input = <<"a", " ">>
    /\ hintLevel = 0

\* one of the normalized forms of a and b is the other with a "g" appended
gAppended(a, b) ==
    \/ normalize(b) = normalize(a) \o <<"g">>
    \/ normalize(a) = normalize(b) \o <<"g">>

\* the length of the shorter normalized form
shorterLen(a, b) ==
    IF Len(normalize(a)) <= Len(normalize(b)) THEN Len(normalize(a)) ELSE Len(normalize(b))

claimedWordIdx(typed) ==
    IF typed # <<>> /\ ~IsSpace(typed[Len(typed)])
    THEN Len(Fields(typed)) - 1
    ELSE Len(Fields(typed))

\* C23: nextWordHint returns the expected word at index (words typed) - 1 when the input
\* is not empty and does not end in white space, at index (words typed) otherwise, and
\* the empty string when that index is out of range.
C23_NextWordHint ==
    msg = hinted =>
        /\ run = "running"
        /\ hint = (LET words == Fields(lines[1])
                       idx == claimedWordIdx(input)
                   IN  IF 0 <= idx /\ idx < Len(words) THEN words[idx + 1] ELSE <<>>)

\* the width in bytes of the last character of a non-empty string
lastCharLen(s) == IF HasSuffix(s, curlyQuote) THEN Len(curlyQuote) ELSE 1

\* C24: Backspace in Typing removes exactly the trailing character of the input when it
\* is not empty and leaves it empty otherwise; so typing one character and then
\* Backspace restores the input.
C24_BackspaceRemovesCharacter ==
    [][Handles("KeyBackspace", stateTyping) =>
          /\ input' = IF input = <<>> THEN <<>>
                      ELSE Slice(input, 0, Len(input) - lastCharLen(input))
          /\ (msg.Type = "KeyRunes" /\ input # <<>>) => input' \o msg.Runes = input]_vars

\* the letters and digits of s in their order, each in lower case
lettersAndDigitsLowered(s) ==
    LET kept == SelectSeq(s, LAMBDA c : IsLetter(c) \/ IsDigit(c))
    IN  [i \in 1..Len(kept) |-> ToLower(kept[i])]

\* C25: normalize(s) is the letters and digits of s in their order, each in lower case,
\* every other character dropped, and normalizing the result again changes nothing.
C25_NormalizeIdempotent ==
    msg = normalized =>
        /\ hint = lettersAndDigitsLowered(input)
        /\ lines = <<hint>>

\* "A'1" became "a1", and stays "a1"
C25_Witness ==
    /\ msg = normalized
    /\ input = <<"A", "'", "1">>
    /\ hint = <<"a", "1">>
    /\ lines = <<hint>>

isEdit(k) == k.Type \in {"KeyRunes", "KeySpace", "KeyBackspace"}

C27_ConfirmClearsInputAndHint ==
    [][Handles("KeyEnter", stateTyping) =>
          /\ input' = <<>>
          /\ hint' = <<>>
          /\ hintLevel' = 0]_vars

\* the first line has been confirmed and the second is prompted with nothing shown
C27_Witness ==
    /\ state = stateTyping
    /\ msg.Type = "KeyEnter"
    /\ currentLine = 1
    /\ ~isComment(At(lines, 0))
    /\ ~isComment(At(lines, 1))
    /\ input = <<>>
    /\ hint = <<>>
    /\ hintLevel = 0

\* C28: every header line opens a section named by its header text that starts at the
\* header's index; the sections are as many as the headers, plus one when the first
\* line is no header; a section holds no header but at its first index.
C28_HeadersOpenSections ==
    msg = parsed =>
        /\ \A i \in headerIndices(allLines) :
               \E k \in 1..Len(sections) :
                   /\ sections[k].startIdx = i
                   /\ sections[k].name = headerText(At(allLines, i))
        /\ Len(sections) = Cardinality(headerIndices(allLines))
                              + (IF allLines # <<>> /\ 0 \notin headerIndices(allLines)
                                 THEN 1 ELSE 0)
        /\ \A k \in 1..Len(sections) :
               \A i \in (sections[k].startIdx + 1)..(sections[k].endIdx - 1) :
                   i \notin headerIndices(allLines)

\* two headers in a row, the first indented, then a line
C28_Witness ==
    /\ msg = parsed
    /\ allLines = <<hdrIndented, hdrA, lineAa>>
    /\ Len(sections) = 2
    /\ sections[1] = [name |-> <<"a">>, startIdx |-> 0, endIdx |-> 1]
    /\ sections[2] = [name |-> <<"a">>, startIdx |-> 1, endIdx |-> 3]

\* C29: a session starts in stateIntro when the title or the artist is not empty and in
\* stateSectionSelect otherwise, with the practice set the whole file, cursor 0, empty
\* input and all results false; in stateIntro Enter or Space moves to
\* stateSectionSelect and every other key but Ctrl-C and Esc leaves the state as it is.
C29_StartAndIntro ==
    /\ [](msg = noMsg =>
             /\ state = (IF meta.Title # <<>> \/ meta.Artist # <<>>
                         THEN stateIntro ELSE stateSectionSelect)
             /\ lines = allLines
             /\ currentLine = 0
             /\ input = <<>>
             /\ Len(results) = Len(lines)
             /\ \A i \in 1..Len(results) : results[i] = FALSE)
    /\ [][(run = "running" /\ state = stateIntro) =>
             /\ msg'.Type \in {"KeyEnter", "KeySpace"} => state' = stateSectionSelect
             /\ msg'.Type \notin {"KeyEnter", "KeySpace", "KeyCtrlC", "KeyEsc"} =>
                    state' = stateIntro]_vars

\* a file with an artist and no title: the intro was shown and left with Space
C29_Witness ==
    /\ meta = byArtist
    /\ msg.Type = "KeySpace"
    /\ state = stateSectionSelect
    /\ lines = allLines

\* C30: in every reachable state the results are as many as the lines of the practice
\* set, so the indices that read and write them (the cursor at Enter and at a hint, the
\* comments skipped, the lines scored) are within bounds, also after a section was
\* selected and after a restart.
C30_ResultsAlignWithLines ==
    /\ Len(results) = Len(lines)
    /\ 0 <= currentLine /\ currentLine <= Len(lines)
    /\ state = stateTyping => currentLine < Len(results)
    /\ state = stateResult => currentLine = Len(results)

\* one section of a longer file, restarted
C30_Witness ==
    /\ state = stateTyping
    /\ isYes(msg)
    /\ selectedSection >= 0
    /\ Len(lines) < Len(allLines)
    /\ Len(results) = Len(lines)

\* C31: every result at an index at or after the cursor is false: a position holds
\* true only once the cursor has passed it, as a skipped header or as a confirmed
\* matching line.
C31_NoResultAheadOfCursor ==
    /\ \A i \in currentLine..(Len(results) - 1) : At(results, i) = FALSE
    /\ \A i \in 0..(Len(results) - 1) :
           At(results, i) => (i < currentLine /\ i < Len(lines))

\* the first of two lines was confirmed with a match, the second is prompted
C31_Witness ==
    /\ state = stateTyping
    /\ msg.Type = "KeyEnter"
    /\ lines = <<lineAa, lineAa>>
    /\ currentLine = 1
    /\ results = <<TRUE, FALSE>>

\* the words of a line, as a set
wordsOf(line) == {Fields(line)[i] : i \in 1..Len(Fields(line))}

\* C32: hintLevel is 0, 1 or 2; at level 0 the hint is empty; at level 2 the state is
\* stateTyping and the hint is the line prompted; a hint at level 1 that is not empty is
\* one of the words of the line prompted.
C32_HintLevels ==
    /\ hintLevel \in {0, 1, 2}
    /\ hintLevel = 0 => hint = <<>>
    /\ hintLevel = 2 =>
           /\ state = stateTyping
           /\ currentLine < Len(lines)
           /\ hint = At(lines, currentLine)
    /\ (hintLevel = 1 /\ hint # <<>>) =>
           /\ currentLine < Len(lines)
           /\ hint \in wordsOf(At(lines, currentLine))

\* the second word of "a a" is hinted after "a " was typed
C32_Witness ==
    /\ state = stateTyping
    /\ msg.Type = "KeyTab"
    /\ At(lines, currentLine) = lineAa
    /\ input = <<"a", " ">>
    /\ hintLevel = 1
    /\ hint = <<"a">>

\* C33: in every state but stateTyping (stateIntro, stateSectionSelect, stateResult)
\* the input is empty, the hint is empty and hintLevel is 0: a restart or a section
\* selection, which reset neither hint nor hintLevel, never starts from a stale hint.
C33_NoStaleHintOutsideTyping ==
    state # stateTyping =>
        /\ input = <<>>
        /\ hint = <<>>
        /\ hintLevel = 0

\* the last line was confirmed with a match: the result screen, with nothing left over
C33_Witness ==
    /\ state = stateResult
    /\ msg.Type = "KeyEnter"
    /\ lines = <<hdrA, lineAa>>
    /\ results = <<TRUE, TRUE>>
    /\ input = <<>>
    /\ hint = <<>>
    /\ hintLevel = 0

\* C34: runes, space, Backspace and Tab in stateTyping leave the cursor, the results,
\* the practice set, the selected section and the state as they are; only Enter moves
\* the cursor or writes a result, and the only result of a line that is no header that
\* Enter writes is the one at the old cursor.
C34_OnlyEnterMovesCursor ==
    [][(run = "running" /\ state = stateTyping) =>
          /\ (isEdit(msg') \/ msg'.Type = "KeyTab") =>
                 UNCHANGED <<currentLine, results, lines, selectedSection, state>>
          /\ (currentLine' # currentLine \/ results' # results) => msg'.Type = "KeyEnter"
          /\ msg'.Type = "KeyEnter" =>
                 /\ currentLine' > currentLine
                 /\ \A i \in 0..(Len(lines) - 1) :
                        (At(results', i) # At(results, i) /\ ~isComment(At(lines, i)))
                            => i = currentLine]_vars

\* the full line is hinted on the second line, the first result still in place
C34_Witness ==
    /\ state = stateTyping
    /\ msg.Type = "KeyTab"
    /\ hintLevel = 2
    /\ lines = <<lineAa, lineAa>>
    /\ currentLine = 1
    /\ results = <<TRUE, FALSE>>

\* C35: hints do not influence the score: two sessions over the same practice set that
\* receive the same runes, spaces, Backspaces and Enters, and Tabs in any places each,
\* have the same cursor, results, state and score.
C35_HintsDoNotInfluenceScore ==
    twin # noTwin =>
        /\ twin.currentLine = currentLine
        /\ twin.results = results
        /\ twin.state = state
        /\ scoreCorrect(lines, twin.results) = scoreCorrect(lines, results)

\* the lines before index n that are no headers
nonHeadersBefore(ls, n) == Cardinality({i \in 0..(n - 1) : ~isComment(At(ls, i))})

\* C36: every Enter in stateTyping moves the cursor forward; an attempt starts (at a
\* selection or a restart) with no line to type behind the cursor, every Enter puts
\* exactly one more behind it, and stateResult is reached with all of them behind it, so
\* the Enters of an attempt are as many as the lines that are no headers; and when
\* Enter keeps being pressed, every attempt reaches stateResult, unless the session ends
\* first.
C36_ConfirmsReachResult ==
    /\ [][(Handles("KeyEnter", stateTyping) =>
               /\ currentLine' > currentLine
               /\ nonHeadersBefore(lines, currentLine')
                      = nonHeadersBefore(lines, currentLine) + 1)
          /\ ((isSelection \/ isRestart) => nonHeadersBefore(lines', currentLine') = 0)
          /\ (state' = stateResult =>
                  nonHeadersBefore(lines', currentLine') = scoreTotal(lines', results'))]_vars
    /\ (state = stateTyping) ~> (state = stateResult \/ run # "running")

\* both lines of a set of two were confirmed: the result screen
C36_Witness ==
    /\ state = stateResult
    /\ run = "running"
    /\ msg.Type = "KeyEnter"
    /\ lines = <<lineAa, lineAa>>
    /\ currentLine = 2

\* C37: the state only moves forward in the order stateIntro, stateSectionSelect,
\* stateTyping, stateResult, but for the restart, which takes stateResult back to
\* stateTyping; stateIntro and stateSectionSelect are never entered again, so from the
\* first selection on the practice set and the selected section stay as they are.
C37_StatesMoveForward ==
    [][/\ state' >= state \/ (state = stateResult /\ state' = stateTyping /\ isRestart)
       /\ (state' \in {stateIntro, stateSectionSelect} /\ state' # state) =>
              (state = stateIntro /\ state' = stateSectionSelect)
       /\ state \in {stateTyping, stateResult} =>
              UNCHANGED <<lines, lineIndices, selectedSection, allLines, sections>>]_vars

\* the second section of a file of three lines, restarted from the result screen
C37_Witness ==
    /\ state = stateTyping
    /\ msg = KeyRunes(<<"y">>)
    /\ allLines = <<lineAa, hdrA, lineAa>>
    /\ selectedSection = 1
    /\ lines = <<hdrA, lineAa>>
    /\ currentLine = 1

\* C38: a Tab in stateTyping never fails: whatever was typed, white space that is no
\* space included, and whatever the line, the session runs on and the hint for the
\* next word is empty or one word of the line.
C38_HintNeverFails ==
    [][(Handles("KeyTab", stateTyping) /\ hintLevel = 0) =>
          /\ run' = "running"
          /\ hintLevel' = 1
          /\ hint' = <<>> \/ hint' \in wordsOf(At(lines, currentLine))]_vars

====
